---- MODULE Spec2Model ----
(***************************************************************************)
(* Card-scan / SAML single-sign-on session bridge of the WorkerConnect     *)
(* backend: the session-token injection middleware and the session lookup  *)
(* of server.js, and the /card-scan, /saml/login, /saml/acs and            *)
(* /saml/status handlers of routes/saml.js.                                *)
(*                                                                         *)
(* A request is processed in two steps: Receive runs the middleware chain  *)
(* of server.js up to the session lookup and leaves the request in `req`;  *)
(* one handler action then runs the route's chain against that request.    *)
(*                                                                         *)
(* passport's req.logIn and req.logout are modelled by what they do to     *)
(* req.user and to session.passport; the session keeps its id and its      *)
(* other keys across them, as the handlers of routes/saml.js assume.       *)
(*                                                                         *)
(* Spec is the server with requests arriving back to back; SpecRoundTrip   *)
(* lets time pass between requests (sessions expire) and begins logins     *)
(* from the mobile app; SpecClassify is the device classifier alone.       *)
(***************************************************************************)
EXTENDS Integers, FiniteSets, Sequences, TLC

\* ------------------------------------------------------------------ bounds
MaxSessions == 2
MaxRequests == 3
MaxDetections == 3
MaxTime == 2

\* --------------------------------------------------------------- constants
Undefined == "undefined"
DefaultSecret == "your-session-secret-change-in-production"
EnvSecrets == {Undefined, "", "env-secret"}
Cards == {"12345", "99999"}
Roles == {"worker", "establishment", "department"}
SIDs == 1..MaxSessions
\* the session cookie's maxAge, 24 hours, in the clock's unit of 12 hours
MaxAge == 2

VARIABLES
    SESSION_SECRET, \* process.env.SESSION_SECRET
    store,          \* the session store: session id -> session
    nextSid,        \* the next session id the store generates
    req,            \* the request between the middleware and its handler
    last,           \* the response to the request handled last, until the next arrives
    issued,         \* per session, the token its client took from the redirect
    denied,         \* sessions whose last callback was a card mismatch
    mobileLogin,    \* sessions whose login was begun by a request classified mobile-app
    now,            \* Date.now(), in units of half the cookie's maxAge
    expires,        \* per session, cookie.expires as the store holds it
    pendingSince,   \* per session, the time its pending scan was stored
    nreq,           \* requests handled so far
    detect          \* the request detectDeviceMiddleware is classifying

vars ==
    <<SESSION_SECRET, store, nextSid, req, last, issued, denied, mobileLogin,
      now, expires, pendingSince, nreq, detect>>

\* ------------------------------------------------------------ session data
NoUser == [nameID |-> Undefined, cardId |-> Undefined, role |-> Undefined]
NoPassport == [nameID |-> Undefined, employeeNumber |-> Undefined]

NewSession ==
    [exists |-> TRUE, pendingCardId |-> Undefined, user |-> NoUser,
     passport |-> NoPassport, samlUser |-> Undefined, loginRole |-> Undefined,
     isMobileApp |-> FALSE]

NoSession == [NewSession EXCEPT !.exists = FALSE]

\* ------------------------------------------------------- signed session ids
NoMac == [key |-> "", msg |-> 0]
NoToken == [pfx |-> "", val |-> 0, mac |-> NoMac, enc |-> FALSE]
NoSidCookie == [pfx |-> "other", val |-> 0, mac |-> NoMac, enc |-> FALSE]

Keys == {DefaultSecret, "", "env-secret"}
Tokens ==
    [pfx : {"s:", "x:"}, val : SIDs, mac : [key : Keys, msg : SIDs],
     enc : {FALSE}]

Hmac(val, secret) == [key |-> secret, msg |-> val]

SignThrows(secret) == secret = Undefined

sign(val, secret) == [val |-> val, mac |-> Hmac(val, secret)]

unsign_NoCompare(signed, secret) == signed.val

unsign(signed, secret) ==
    IF sign(signed.val, secret).mac = signed.mac THEN signed.val ELSE 0

encodeURIComponent(tok) == [tok EXCEPT !.enc = TRUE]
decodeURIComponent(tok) == [tok EXCEPT !.enc = FALSE]

SessionSecret ==
    IF SESSION_SECRET \in {Undefined, ""} THEN DefaultSecret ELSE SESSION_SECRET

SessionCookie(sid) ==
    [pfx |-> "s:", val |-> sid, mac |-> sign(sid, SessionSecret).mac,
     enc |-> FALSE]

\* ------------------------------------------------------------- middlewares
SessionTokenInjection_Overrides(h) ==
    IF h.xtoken # NoToken THEN [h EXCEPT !.cookie = h.xtoken] ELSE h

SessionTokenInjection_ReadsQuery(h) ==
    IF h.cookie = NoToken /\ h.xtoken # NoToken THEN [h EXCEPT !.cookie = h.xtoken]
    ELSE IF h.cookie = NoToken /\ h.qtoken # NoToken THEN [h EXCEPT !.cookie = h.qtoken]
    ELSE h

SessionTokenInjection(h) ==
    IF h.cookie = NoToken /\ h.xtoken # NoToken
    THEN [h EXCEPT !.cookie = h.xtoken]
    ELSE h

getcookie(h) ==
    IF h.cookie = NoToken \/ h.cookie = NoSidCookie
    THEN 0
    ELSE LET raw == decodeURIComponent(h.cookie)
         IN IF raw.pfx = "s:"
            THEN unsign([val |-> raw.val, mac |-> raw.mac], SessionSecret)
            ELSE 0

\* MemoryStore.get drops a session whose cookie.expires is not in the future
Expired(sid) == expires[sid] <= now

session(h) ==
    LET sid == getcookie(h)
    IN IF sid # 0 /\ store[sid].exists /\ ~Expired(sid) THEN sid ELSE 0

ResolveSid(h) == session(SessionTokenInjection(h))

\* the cookies express-session sets: session ids signed with its secret
WellSigned == {SessionCookie(s) : s \in SIDs}

\* a token as it stands in the redirect URL, URI-encoded
Encoded(toks) == {encodeURIComponent(tok) : tok \in toks}

\* the signed cookies of the sessions the store holds
Live == {SessionCookie(s) : s \in {x \in SIDs : store[x].exists}}

\* session ids signed with each key
Signed == {t \in Tokens : t.pfx = "s:" /\ t.mac.msg = t.val}

\* the credentials requests arrive with: a cookie, a token in the header, the
\* signed id of a live session in the query, or a cookie together with the
\* signed id of a live session in the header
Creds ==
    [cookie : {NoToken, NoSidCookie} \cup WellSigned, xtoken : {NoToken}, qtoken : {NoToken}]
    \cup [cookie : {NoToken}, xtoken : Signed \cup Encoded(WellSigned), qtoken : {NoToken}]
    \cup [cookie : {NoToken}, xtoken : {NoToken}, qtoken : Live]
    \cup [cookie : WellSigned \cup {NoSidCookie}, xtoken : Live, qtoken : {NoToken}]

\* A request past the session lookup. sid: the session it resolved to (0: a
\* fresh, unsaved session). via: where it carried a fallback token.
Idle == [sid |-> -1, via |-> "idle"]

Via(h) ==
    IF h.xtoken # NoToken
    THEN (IF h.cookie # NoToken THEN "cookie+token" ELSE "token")
    ELSE IF h.qtoken # NoToken THEN "query" ELSE "none"

\* ------------------------------------------------------- device detection
\* The signals isMobileApp and isMobileBrowser read. An origin or a User-Agent
\* is one of a few concrete strings; startsWith, includes and the regular
\* expressions are tabulated over them.
Device ==
    [xAppPlatform : {Undefined, "mobile"},
     xClientType : {Undefined, "mobile-app"},
     origin : {Undefined, "capacitor://localhost", "https://dulcet-cobbler-4df9df.netlify.app"},
     referer : {Undefined, "capacitor://localhost"},
     userAgent : {Undefined, "WorkerConnectApp/1.0", "Mozilla/5.0 (iPhone) Mobile Safari",
                  "Mozilla/5.0 (Windows NT 10.0) Chrome"},
     queryPlatform : {Undefined, "mobile"},
     queryApp : {Undefined, "true"}]

\* origins that start with one of mobileOriginPatterns
MobileOriginPrefixed == {"capacitor://localhost"}
\* User-Agents that include one of mobileAppIdentifiers
WithAppIdentifier == {"WorkerConnectApp/1.0"}
\* User-Agents that one of mobilePatterns matches
WithMobilePattern == {"Mozilla/5.0 (iPhone) Mobile Safari"}

DeviceTypes == {"mobile-app", "mobile-browser", "desktop-browser"}

NoInfo == [isMobileApp |-> FALSE, isMobileBrowser |-> FALSE, isDesktopBrowser |-> FALSE]

isMobileApp_NoHeader(d, sess) ==
    \/ LET origin == IF d.origin # Undefined THEN d.origin ELSE d.referer
       IN origin # Undefined /\ origin \in MobileOriginPrefixed
    \/ d.userAgent \in WithAppIdentifier
    \/ d.queryPlatform = "mobile" \/ d.queryApp = "true"
    \/ sess.isMobileApp

isMobileApp_Global(d, sess) ==
    \/ isMobileApp_NoHeader(d, sess)
    \/ d.xAppPlatform = "mobile" \/ d.xClientType = "mobile-app"
    \/ detect.mobileSeen

isMobileApp(d, sess) ==
    \/ d.xAppPlatform = "mobile" \/ d.xClientType = "mobile-app"
    \/ LET origin == IF d.origin # Undefined THEN d.origin ELSE d.referer
       IN origin # Undefined /\ origin \in MobileOriginPrefixed
    \/ d.userAgent \in WithAppIdentifier
    \/ d.queryPlatform = "mobile" \/ d.queryApp = "true"
    \/ sess.isMobileApp

isMobileBrowser_EmptyIsMobile(d, sess) ==
    (d.userAgent = Undefined \/ d.userAgent \in WithMobilePattern) /\ ~isMobileApp(d, sess)

isMobileBrowser(d, sess) ==
    d.userAgent \in WithMobilePattern /\ ~isMobileApp(d, sess)

isDesktopBrowser(d, sess) == ~isMobileApp(d, sess) /\ ~isMobileBrowser(d, sess)

getDeviceInfo(d, sess) ==
    LET isMobile == isMobileApp(d, sess)
        isMobileBrow == ~isMobile /\ isMobileBrowser(d, sess)
    IN [isMobileApp |-> isMobile, isMobileBrowser |-> isMobileBrow,
        isDesktopBrowser |-> ~isMobile /\ ~isMobileBrow]

\* req.deviceType and req.session.isMobileApp after detectDeviceMiddleware
detectDeviceMiddleware(d, sess) ==
    IF isMobileApp(d, sess)
    THEN [deviceType |-> "mobile-app", isMobileApp |-> TRUE]
    ELSE IF isMobileBrowser(d, sess)
         THEN [deviceType |-> "mobile-browser", isMobileApp |-> sess.isMobileApp]
         ELSE [deviceType |-> "desktop-browser", isMobileApp |-> sess.isMobileApp]

getRedirectUrl_AlwaysWeb(d, sess) == "CLIENT_URL"

getRedirectUrl(d, sess) ==
    IF isMobileApp(d, sess) THEN "MOBILE_APP_URL" ELSE "CLIENT_URL"

\* the devices the callback is delivered from
NoSignals ==
    [xAppPlatform |-> Undefined, xClientType |-> Undefined, origin |-> Undefined,
     referer |-> Undefined, userAgent |-> Undefined, queryPlatform |-> Undefined,
     queryApp |-> Undefined]

Browsers ==
    {[NoSignals EXCEPT !.xAppPlatform = "mobile"],
     [NoSignals EXCEPT !.origin = "https://dulcet-cobbler-4df9df.netlify.app",
                       !.userAgent = "Mozilla/5.0 (Windows NT 10.0) Chrome"]}

\* the desktop browsers among them
WebBrowsers == {d \in Browsers : ~isMobileApp(d, [isMobileApp |-> FALSE])}

\* One classification. dev, flag: the request and req.session.isMobileApp as
\* it arrives; deviceType ("none" until the middleware has run), sticky, info:
\* req.deviceType, req.session.isMobileApp and getDeviceInfo(req) afterwards;
\* n: requests classified; first: the first classification; mobileSeen:
\* whether some earlier request was classified mobile-app.
NoFirst == [dev |-> NoSignals, flag |-> FALSE, deviceType |-> "none", info |-> NoInfo]

NoDetect ==
    [dev |-> NoSignals, flag |-> FALSE, deviceType |-> "none", sticky |-> FALSE,
     info |-> NoInfo, n |-> 0, first |-> NoFirst, mobileSeen |-> FALSE]

\* ------------------------------------------------------------- responses
NoReply ==
    [op |-> "none", status |-> 0, sid |-> 0, loc |-> "", base |-> "",
     token |-> NoToken, auth |-> FALSE, cardId |-> Undefined, scanned |-> Undefined,
     intent |-> Undefined, replaced |-> Undefined, dev |-> NoSignals,
     samlUser |-> NoPassport]

Reply(op, status, sid) == [NoReply EXCEPT !.op = op, !.status = status, !.sid = sid]

\* ---------------------------------------------------------------- session
SessOf(r) == IF r.sid = 0 THEN NewSession ELSE store[r.sid]

SidOf(r) == IF r.sid = 0 THEN nextSid ELSE r.sid

CanSave(r) == r.sid = 0 => nextSid <= MaxSessions

Save_SharedPending(r, sess) ==
    /\ store' = [s \in SIDs |->
                    IF s = SidOf(r) THEN sess
                    ELSE IF store[s].exists
                         THEN [store[s] EXCEPT !.pendingCardId = sess.pendingCardId]
                         ELSE store[s]]
    /\ nextSid' = IF r.sid = 0 THEN nextSid + 1 ELSE nextSid

Save(r, sess) ==
    /\ store' = [store EXCEPT ![SidOf(r)] = sess]
    /\ nextSid' = IF r.sid = 0 THEN nextSid + 1 ELSE nextSid

clearSamlSession_KeepsPending(sess) ==
    [sess EXCEPT !.samlUser = Undefined, !.passport = NoPassport]

clearSamlSession(sess) ==
    [sess EXCEPT !.samlUser = Undefined, !.pendingCardId = Undefined,
                 !.passport = NoPassport]

logout(sess) == [sess EXCEPT !.passport = NoPassport]

\* -------------------------------------------------------------------- Init
Init ==
    /\ SESSION_SECRET \in EnvSecrets
    /\ store = [s \in SIDs |-> NoSession]
    /\ nextSid = 1
    /\ req = Idle
    /\ last = NoReply
    /\ issued = [s \in SIDs |-> NoToken]
    /\ denied = {}
    /\ mobileLogin = {}
    /\ now = 0
    /\ expires = [s \in SIDs |-> 0]
    /\ pendingSince = [s \in SIDs |-> 0]
    /\ nreq = 0
    /\ detect = NoDetect

\* server.js 124-198: token injection, then the session lookup
Receive(h) ==
    /\ req = Idle
    /\ nreq < MaxRequests
    /\ req' = [sid |-> ResolveSid(h), via |-> Via(h)]
    /\ last' = NoReply
    /\ UNCHANGED <<SESSION_SECRET, store, nextSid, issued, denied, mobileLogin,
                 now, expires, pendingSince, nreq, detect>>

\* the server is idle and another request can arrive
Awaiting == req = Idle /\ nreq < MaxRequests

\* The handlers read nothing of a request's credentials but the session they
\* resolved to: requests with a fallback token are followed to /saml/status,
\* the other routes are reached with a cookie or with no credentials.
Routed == req # Idle /\ req.via = "none"

\* The response ends: express-session resets the cookie's maxAge (touch) and
\* writes it to the store, with the session when it saves it and alone when
\* it does not; a fresh session that was not modified is not stored.
Done ==
    /\ req' = Idle
    /\ nreq' = nreq + 1
    /\ expires' = IF req.sid # 0 \/ nextSid' # nextSid
                  THEN [expires EXCEPT ![SidOf(req)] = now + MaxAge]
                  ELSE expires
    /\ UNCHANGED <<SESSION_SECRET, detect, now>>

\* GET /saml/status
isAuthenticated(sess) == sess.passport # NoPassport \/ sess.user # NoUser

StatusUser(sess) ==
    IF ~isAuthenticated(sess) THEN NoUser
    ELSE IF sess.user # NoUser THEN sess.user
    ELSE [NoUser EXCEPT !.nameID = sess.passport.nameID]

Status_SavesSession ==
    /\ req # Idle
    /\ CanSave(req)
    /\ last' = [Reply("status", 200, SidOf(req)) EXCEPT
                    !.auth = isAuthenticated(SessOf(req)),
                    !.cardId = StatusUser(SessOf(req)).cardId]
    /\ Save(req, SessOf(req))
    /\ Done
    /\ UNCHANGED <<issued, denied, mobileLogin, pendingSince>>

Status ==
    /\ req # Idle
    /\ last' = [Reply("status", 200, req.sid) EXCEPT
                    !.auth = isAuthenticated(SessOf(req)),
                    !.cardId = StatusUser(SessOf(req)).cardId]
    /\ UNCHANGED <<store, nextSid, issued, denied, mobileLogin, pendingSince>>
    /\ Done

\* POST /card-scan
CardInputs ==
    [type : {"undefined", "number"}, core : {""}, ws : {FALSE}]
    \cup [type : {"string"}, core : Cards \cup {""}, ws : BOOLEAN]

IsEmptyString(cardId) == cardId.core = "" /\ ~cardId.ws

trim(cardId) == cardId.core

InvalidCardId_NoTrim(cardId) ==
    \/ cardId.type = "undefined"
    \/ cardId.type = "string" /\ IsEmptyString(cardId)
    \/ cardId.type # "string"

InvalidCardId(cardId) ==
    \/ cardId.type = "undefined"
    \/ cardId.type = "string" /\ IsEmptyString(cardId)
    \/ cardId.type # "string"
    \/ trim(cardId) = ""

\* req.session.pendingCardId = trimmedCardId
StorePending_KeepsFirst(sess, trimmedCardId) ==
    IF sess.pendingCardId # Undefined THEN sess
    ELSE [sess EXCEPT !.pendingCardId = trimmedCardId]

StorePending(sess, trimmedCardId) == [sess EXCEPT !.pendingCardId = trimmedCardId]

\* const isLoggedIn = req.session.samlUser && req.user
isLoggedIn_UserOnly(sess) == sess.passport # NoPassport

isLoggedIn(sess) == sess.samlUser # Undefined /\ sess.passport # NoPassport

\* The forced logout: clearSamlSession, then req.logout with a callback the
\* handler does not wait for, then the handler stores the scan and saves the
\* session. passport's write of the logged-out session lands before the
\* handler's save or after it; landing after, it replaces what was saved.
LogoutOrders == {"logout-first", "save-first"}

ForcedLogout(sess, trimmedCardId, order) ==
    LET cleared == logout(clearSamlSession(sess))
    IN IF order = "logout-first"
       THEN StorePending(cleared, trimmedCardId)
       ELSE cleared

CardScan(cardId) ==
    /\ Routed
    /\ IF InvalidCardId(cardId)
       THEN /\ last' = Reply("card-scan", 400, req.sid)
            /\ UNCHANGED <<store, nextSid, pendingSince>>
       ELSE /\ CanSave(req)
            /\ LET sess == SessOf(req)
               IN IF isLoggedIn(sess)
                  THEN \E order \in LogoutOrders :
                          Save(req, ForcedLogout(sess, trim(cardId), order))
                  ELSE Save(req, StorePending(sess, trim(cardId)))
            /\ last' = [Reply("card-scan", 200, SidOf(req))
                            EXCEPT !.loc = "/saml/login", !.scanned = trim(cardId),
                                   !.replaced = SessOf(req).pendingCardId]
            /\ pendingSince' = [pendingSince EXCEPT ![SidOf(req)] = now]
    /\ Done
    /\ UNCHANGED <<issued, denied, mobileLogin>>

\* GET /saml/login, /saml/login/worker, /saml/login/establishment
LoginRoutes == {"/login", "/login/worker", "/login/establishment"}

LoginRole(route) == IF route = "/login/establishment" THEN "establishment" ELSE "worker"

\* the login URL of each role, /saml/login/${role}, and the plain /saml/login
LoginRequests == LoginRoutes \cup {"/login/department"}

\* the role a login request names
Intent(route) ==
    CASE route = "/login/establishment" -> "establishment"
      [] route = "/login/department" -> "department"
      [] OTHER -> "worker"

\* a path without a route of its own falls through to notFoundHandler.
\* The login routes write loginRole and nothing else into the session: d, the
\* device signals of the request, are read by no middleware and no handler.
Login(route, d) ==
    /\ Routed
    /\ IF route \in LoginRoutes
       THEN /\ CanSave(req)
            /\ Save(req, [SessOf(req) EXCEPT !.loginRole = LoginRole(route)])
            /\ last' = [Reply("login", 302, SidOf(req)) EXCEPT
                            !.loc = "idp", !.intent = Intent(route)]
            /\ mobileLogin' = IF isMobileApp(d, SessOf(req))
                              THEN mobileLogin \cup {SidOf(req)}
                              ELSE mobileLogin \ {SidOf(req)}
       ELSE /\ last' = [Reply("login", 404, req.sid) EXCEPT !.intent = Intent(route)]
            /\ UNCHANGED <<store, nextSid, mobileLogin>>
    /\ Done
    /\ UNCHANGED <<issued, denied, pendingSince>>

\* the samlStrategy verify callback
\* the nameidentifier claim, when the IdP sends it, is the NameID; it is read
\* only when employeeNumber is absent, so profiles that carry employeeNumber
\* are drawn with the claim present
Profiles ==
    {p \in [nameID : Cards, employeeNumber : Cards \cup {Undefined},
            nameidentifier : Cards \cup {Undefined}] :
        /\ p.nameidentifier \in {Undefined, p.nameID}
        /\ p.employeeNumber # Undefined => p.nameidentifier = p.nameID}

\* a SAMLResponse that fails passport-saml's validation carries no profile
InvalidResponse ==
    [nameID |-> Undefined, employeeNumber |-> Undefined, nameidentifier |-> Undefined]

SAMLResponses == Profiles \cup {InvalidResponse}

\* a request that carries no SAMLResponse
NoSAMLResponse ==
    [nameID |-> "", employeeNumber |-> Undefined, nameidentifier |-> Undefined]

\* passport.authenticate('saml', {failureRedirect: '/login'}) fails: on a
\* SAMLResponse that does not validate and on a body without SAMLResponse
AuthenticateFails_Never(profile) == FALSE

AuthenticateFails(profile) == profile \in {InvalidResponse, NoSAMLResponse}

Verify(profile) ==
    [nameID |-> profile.nameID,
     employeeNumber |-> IF profile.employeeNumber # Undefined
                        THEN profile.employeeNumber
                        ELSE profile.nameidentifier]

DashboardPath(role) ==
    IF role = "establishment" THEN "/dashboard/establishment"
    ELSE IF role = "department" THEN "/dashboard/department"
    ELSE "/dashboard/worker"

SessionToken(sid) ==
    IF SignThrows(SESSION_SECRET)
    THEN NoToken
    ELSE encodeURIComponent([pfx |-> "s:", val |-> sid,
                             mac |-> sign(sid, SESSION_SECRET).mac, enc |-> FALSE])

UserIdentifier_NameIDFirst(samlUser) == samlUser.nameID

UserIdentifier(samlUser) ==
    IF samlUser.employeeNumber # Undefined THEN samlUser.employeeNumber
    ELSE samlUser.nameID

SessionUser(samlUser, sess) ==
    [nameID |-> samlUser.nameID,
     cardId |-> samlUser.employeeNumber,
     role |-> IF sess.loginRole # Undefined THEN sess.loginRole ELSE "worker"]

\* the card validation: only a pending scan is compared
CardMismatch_AlwaysCompares(pendingCardId, samlUser) ==
    UserIdentifier(samlUser) # pendingCardId

CardMismatch(pendingCardId, samlUser) ==
    pendingCardId # Undefined /\ UserIdentifier(samlUser) # pendingCardId

\* delete req.session.pendingCardId
ConsumePending_Keeps(sess) == sess

ConsumePending(sess) == [sess EXCEPT !.pendingCardId = Undefined]

\* acsHandler's redirectUrl: getRedirectUrl(req, redirectPath), the base chosen
\* by the device in front of the path chosen by the role
redirectUrl_PathByDevice(d, sess, redirectPath) ==
    [base |-> getRedirectUrl(d, sess),
     path |-> IF isMobileApp(d, sess) THEN "/" ELSE redirectPath]

redirectUrl(d, sess, redirectPath) ==
    [base |-> getRedirectUrl(d, sess), path |-> redirectPath]

\* acsHandler on the request r of a client with device signals d, after
\* passport has put the verified samlUser into req.user: the session it
\* saves, the response it sends and the token it put into the redirect.
acsHandler(samlUser, d, r) ==
    LET sid == SidOf(r)
        sess == [SessOf(r) EXCEPT !.passport = samlUser]
        pendingCardId == sess.pendingCardId
    IN IF CardMismatch(pendingCardId, samlUser)
       THEN [accepted |-> FALSE,
             sess |-> logout(clearSamlSession(sess)),
             reply |-> [Reply("acs", 403, sid) EXCEPT
                            !.scanned = pendingCardId, !.samlUser = samlUser],
             token |-> NoToken]
       ELSE LET sess1 == ConsumePending(sess)
                sess2 == [sess1 EXCEPT !.user = SessionUser(samlUser, sess1)]
                token == SessionToken(sid)
                url == redirectUrl(d, sess2, DashboardPath(sess2.user.role))
            IN [accepted |-> TRUE,
                sess |-> sess2,
                reply |-> [Reply("acs", 302, sid) EXCEPT
                               !.loc = url.path,
                               !.base = url.base,
                               !.token = token,
                               !.scanned = pendingCardId,
                               !.dev = d,
                               !.samlUser = samlUser],
                token |-> token]

\* POST /saml/acs: passport.authenticate('saml'), then acsHandler
AcsPost(profile, d) ==
    /\ Routed
    /\ IF AuthenticateFails(profile)
       THEN /\ last' = [Reply("acs", 302, req.sid) EXCEPT !.loc = "/login"]
            /\ UNCHANGED <<store, nextSid, issued, denied>>
       ELSE /\ CanSave(req)
            /\ LET out == acsHandler(Verify(profile), d, req)
                   sid == SidOf(req)
               IN /\ Save(req, out.sess)
                  /\ last' = out.reply
                  /\ issued' = IF ~out.accepted THEN issued
                               ELSE [issued EXCEPT ![sid] =
                                        IF out.token = NoToken THEN NoToken
                                        ELSE decodeURIComponent(out.token)]
                  /\ denied' = IF out.accepted THEN denied \ {sid}
                               ELSE denied \cup {sid}
    /\ Done
    /\ UNCHANGED <<mobileLogin, pendingSince>>

\* GET /acs: without a SAMLResponse in the query, 400; with one, the shim
\* writes it into req.body.SAMLResponse, sets the method to POST, and the
\* request runs the chain of POST /acs
ShimBody_KeepsBody(query, body) == body

ShimBody(query, body) == query

\* the SAMLResponse query parameters of GET /acs: none, an invalid one, and
\* the assertions that carry a NameID only
Queries ==
    {NoSAMLResponse, InvalidResponse}
    \cup {p \in Profiles : p.employeeNumber = Undefined /\ p.nameidentifier = Undefined}

AcsGet(query, d) ==
    IF query # NoSAMLResponse
    THEN AcsPost(ShimBody(query, NoSAMLResponse), d)
    ELSE /\ Routed
         /\ last' = Reply("acs", 400, req.sid)
         /\ UNCHANGED <<store, nextSid, issued, denied, mobileLogin, pendingSince>>
         /\ Done

\* POST /logout behind requireSamlAuth
requireSamlAuth(sess) == sess.passport # NoPassport /\ sess.samlUser # Undefined

Logout ==
    /\ Routed
    /\ IF ~requireSamlAuth(SessOf(req))
       THEN /\ last' = Reply("logout", 401, req.sid)
            /\ UNCHANGED <<store, nextSid>>
       ELSE \* clearSamlSession, req.logout, req.session.destroy
            /\ store' = [store EXCEPT ![req.sid] = NoSession]
            /\ last' = [Reply("logout", 200, req.sid) EXCEPT !.loc = "/login"]
            /\ UNCHANGED nextSid
    /\ Done
    /\ UNCHANGED <<issued, denied, mobileLogin, pendingSince>>

Next ==
    \/ \E h \in Creds : Receive(h)
    \/ Status
    \/ \E cardId \in CardInputs : CardScan(cardId)
    \/ \E route \in LoginRequests, d \in WebBrowsers : Login(route, d)
    \/ \E profile \in SAMLResponses, d \in Browsers : AcsPost(profile, d)
    \/ \E query \in Queries, d \in Browsers : AcsGet(query, d)
    \/ Logout

Spec == Init /\ [][Next]_vars

\* ------------------------------------------- login round trips over time
\* The same server with time passing between requests, and with logins begun
\* from the mobile app as well as from the web: clients that hold no
\* credentials or a session cookie, scan a card, begin a login, come back
\* from the IdP with an assertion that carries a NameID, and ask for status.
Tick ==
    /\ req = Idle
    /\ now < MaxTime
    /\ now' = now + 1
    /\ UNCHANGED <<SESSION_SECRET, store, nextSid, req, last, issued, denied,
                   mobileLogin, expires, pendingSince, nreq, detect>>

NextRoundTrip ==
    \/ Tick
    \/ \E h \in [cookie : {NoToken} \cup WellSigned, xtoken : {NoToken}, qtoken : {NoToken}] :
          Receive(h)
    \/ Status
    \/ \E cardId \in [type : {"string"}, core : Cards, ws : {FALSE}] : CardScan(cardId)
    \/ \E route \in LoginRoutes, d \in Browsers : Login(route, d)
    \/ \E profile \in Queries \ {NoSAMLResponse, InvalidResponse}, d \in Browsers :
          AcsPost(profile, d)

SpecRoundTrip == Init /\ [][NextRoundTrip]_vars

\* --------------------------------------------- the device classifier alone
\* detectDeviceMiddleware and getDeviceInfo applied to a sequence of requests:
\* the first request is any combination of the signals and of the sticky flag.
InitClassify ==
    /\ SESSION_SECRET = Undefined
    /\ store = [s \in SIDs |-> NoSession]
    /\ nextSid = 1
    /\ req = Idle
    /\ last = NoReply
    /\ issued = [s \in SIDs |-> NoToken]
    /\ denied = {}
    /\ mobileLogin = {}
    /\ now = 0
    /\ expires = [s \in SIDs |-> 0]
    /\ pendingSince = [s \in SIDs |-> 0]
    /\ nreq = 0
    /\ \E d \in Device, f \in BOOLEAN : detect = [NoDetect EXCEPT !.dev = d, !.flag = f]

Detect ==
    /\ detect.deviceType = "none"
    /\ LET sess == [isMobileApp |-> detect.flag]
           r == detectDeviceMiddleware(detect.dev, sess)
           info == getDeviceInfo(detect.dev, sess)
       IN detect' =
            [detect EXCEPT
                !.deviceType = r.deviceType,
                !.sticky = r.isMobileApp,
                !.info = info,
                !.n = @ + 1,
                !.first = IF @ = NoFirst
                          THEN [dev |-> detect.dev, flag |-> detect.flag,
                                deviceType |-> r.deviceType, info |-> info]
                          ELSE @,
                !.mobileSeen = @ \/ r.deviceType = "mobile-app"]
    /\ UNCHANGED <<SESSION_SECRET, store, nextSid, req, last, issued, denied, mobileLogin,
                 now, expires, pendingSince, nreq>>

\* the next request: the first one again or the app's, in a session with or
\* without the sticky flag
Arrive(d, f) ==
    /\ detect.deviceType # "none"
    /\ detect.n < MaxDetections
    /\ detect' = [detect EXCEPT !.dev = d, !.flag = f, !.deviceType = "none",
                                !.sticky = FALSE, !.info = NoInfo]
    /\ UNCHANGED <<SESSION_SECRET, store, nextSid, req, last, issued, denied, mobileLogin,
                 now, expires, pendingSince, nreq>>

NextClassify ==
    \/ Detect
    \/ \E d \in {detect.first.dev, [NoSignals EXCEPT !.xAppPlatform = "mobile"]},
          f \in BOOLEAN : Arrive(d, f)

SpecClassify == InitClassify /\ [][NextClassify]_vars

\* ------------------------------------------------------------------ claims
CookieOnly(tok) == [cookie |-> tok, xtoken |-> NoToken, qtoken |-> NoToken]
HeaderOnly(tok) == [cookie |-> NoToken, xtoken |-> tok, qtoken |-> NoToken]
QueryOnly(tok) == [cookie |-> NoToken, xtoken |-> NoToken, qtoken |-> tok]

Dashboards == {DashboardPath(role) : role \in Roles}

AcsAccepted == last.op = "acs" /\ last.status = 302 /\ last.loc \in Dashboards

AcsMismatch == last.op = "acs" /\ last.status = 403

\* the identifier a profile asserts: employeeNumber, else nameID
Asserted(profile) ==
    IF Verify(profile).employeeNumber # Undefined
    THEN Verify(profile).employeeNumber
    ELSE Verify(profile).nameID

\* C1: a callback that runs on a session holding a pending card scan, with an
\* asserted identifier different from the pending cardId, leaves no pending
\* cardId and no passport login in the session and creates no session user:
\* session.user is what it was before the attempt.
C1_MismatchCreatesNothing ==
    [][(req.sid > 0 /\ store[req.sid].pendingCardId # Undefined) =>
       \A profile \in Profiles, d \in Browsers :
         (/\ Asserted(profile) # store[req.sid].pendingCardId
          /\ AcsPost(profile, d))
         => /\ store'[req.sid].pendingCardId = Undefined
            /\ store'[req.sid].passport = NoPassport
            /\ store'[req.sid].user = store[req.sid].user
            /\ last'.loc = "" /\ last'.token = NoToken]_vars

C1_Witness ==
    /\ AcsMismatch
    /\ store[last.sid].pendingCardId = Undefined
    /\ store[last.sid].user = NoUser

\* C2: after a callback accepted against a pending card scan, the session
\* user's cardId is the scanned cardId, and status reports authenticated with
\* that cardId.
C2_IdentityCardIdIsScanned ==
    (AcsAccepted /\ last.scanned # Undefined)
        => /\ store[last.sid].user.cardId = last.scanned
           /\ isAuthenticated(store[last.sid])
           /\ StatusUser(store[last.sid]).cardId = last.scanned

\* C3: a card-mismatch callback answers 403 without a redirect, and from then
\* on, until a callback is accepted in that session, status reports the
\* session as not authenticated, whatever it held before.
C3_MismatchIsTerminal ==
    /\ AcsMismatch => last.loc = ""
    /\ \A s \in denied : ~isAuthenticated(store[s])
    /\ (last.op = "status" /\ last.sid \in denied) => ~last.auth

\* C4: once a card scan has been answered, the session holds the scanned
\* cardId as its pending scan and no authenticated identity: an identity the
\* session held was logged out first.
C4_ScanLogsOutFirst ==
    (last.op = "card-scan" /\ last.status = 200)
        => /\ store[last.sid].pendingCardId = last.scanned
           /\ ~isAuthenticated(store[last.sid])

\* C5: for every session established by an accepted callback, a request with
\* no cookie and the token of that callback's redirect in X-Session-Token
\* resolves to the same session as a request with that session's cookie.
C5_TokenResolvesLikeCookie ==
    \A s \in SIDs :
        (store[s].exists /\ store[s].user # NoUser /\ issued[s] # NoToken)
            => /\ ResolveSid(CookieOnly(SessionCookie(s))) = s
               /\ ResolveSid(HeaderOnly(issued[s])) = s

\* C6: the token signed at the callback redirect verifies, at the session
\* layer, to the session id it was signed for, and a token altered in its
\* prefix, id or signature does not verify.
C6_RoundTrip ==
    (AcsAccepted /\ last.token # NoToken)
        => /\ getcookie(CookieOnly(last.token)) = last.sid
           /\ \A t \in Tokens :
                 (/\ t # decodeURIComponent(last.token)
                  /\ \/ t.val = last.token.val
                     \/ t.mac = last.token.mac)
                 => getcookie(CookieOnly(t)) = 0

\* C7: a request whose only credential is a fallback token that is not the
\* signed id of an existing session resolves to no session, so it is
\* answered 200 unauthenticated, with no identity.
C7_BadTokenIsNoSession ==
    /\ Awaiting =>
          \A t \in Tokens \ Live :
              LET sid == ResolveSid(HeaderOnly(t))
              IN sid = 0 /\ ~isAuthenticated(SessOf([sid |-> sid]))
    /\ (last.op = "status" /\ last.sid = 0)
          => last.status = 200 /\ ~last.auth /\ last.cardId = Undefined

C7_Witness ==
    /\ req.via = "token" /\ req.sid = 0
    /\ \E s \in SIDs : isAuthenticated(store[s])

\* C8: with a session cookie and a fallback token both present the session is
\* resolved from the cookie alone; the token is injected only when the
\* request has no cookie.
C8_CookieWins ==
    Awaiting =>
          \A c \in WellSigned \cup {NoSidCookie} :
              LET sid == ResolveSid(CookieOnly(c))
              IN \A x \in Live \cup Encoded(Live) :
                    ResolveSid([cookie |-> c, xtoken |-> x, qtoken |-> NoToken]) = sid
C8_Witness == req.via = "cookie+token" /\ req.sid = 0

\* C9 (as stated): a request with no cookie and a valid token in the
\* session_token query parameter resolves to the token's session, as it does
\* with the token in X-Session-Token.
C9_QueryTokenResolves ==
    req = Idle =>
        \A t \in Live \cup Encoded(Live) :
            ResolveSid(QueryOnly(t)) = ResolveSid(HeaderOnly(t))

\* C9 (amended): a request with no cookie resolves to the session of a valid
\* token only when the token is in X-Session-Token; with the token in the
\* session_token query parameter alone it resolves to no session.
C9_OnlyHeaderTokenResolves ==
    /\ Awaiting =>
          \A t \in Live \cup Encoded(Live) :
              /\ ResolveSid(QueryOnly(t)) = 0
              /\ ResolveSid(HeaderOnly(t)) = t.val
    /\ req.via = "query" => req.sid = 0

C9_Witness == req.via = "query" /\ req.sid = 0

\* C10: every redirect that ends an accepted callback carries a signed session
\* token, whatever SESSION_SECRET is.
C10_RedirectCarriesToken ==
    AcsAccepted => last.token # NoToken /\ last.token.pfx = "s:" /\ last.token.val = last.sid

\* C14: a callback, in the POST or in the GET form, whose assertion fails
\* validation leaves the session store as it was (no session, identity or login
\* is created), issues no token, and answers with a redirect to /login that
\* is no dashboard and carries no session token.
C14_InvalidAssertionCreatesNothing ==
    [][\A d \in Browsers :
          AcsPost(InvalidResponse, d) \/ AcsGet(InvalidResponse, d) =>
              /\ store' = store
              /\ nextSid' = nextSid
              /\ issued' = issued
              /\ last'.op = "acs" /\ last'.status = 302
              /\ last'.loc = "/login" /\ last'.loc \notin Dashboards
              /\ last'.token = NoToken
              /\ ~AcsAccepted']_vars

\* an invalid assertion answered on a request that came without a session
C14_Witness ==
    /\ last.op = "acs" /\ last.status = 302 /\ last.loc = "/login"
    /\ last.sid = 0
    /\ \A s \in SIDs : ~isAuthenticated(store[s])

\* a cardId that is missing, not a string, empty or only whitespace
BadCardIds == {c \in CardInputs : c.type # "string" \/ c.core = ""}

\* C15: a card-scan whose cardId is missing, not a string, empty or only
\* whitespace is answered 400 and leaves every session as it was: the pending
\* scan and the identity of the request's session are unchanged and no session
\* is created.
C15_BadScanChangesNothing ==
    [][\A c \in BadCardIds :
          CardScan(c) =>
              /\ last'.op = "card-scan" /\ last'.status = 400
              /\ store' = store
              /\ nextSid' = nextSid]_vars

\* a rejected scan on a session that holds a pending scan and an identity
C15_Witness ==
    /\ last.op = "card-scan" /\ last.status = 400
    /\ last.sid # 0
    /\ store[last.sid].pendingCardId # Undefined
    /\ store[last.sid].user # NoUser

\* C16: once logout has been requested on a stored session, a status request
\* presenting that session's cookie, or its token in the header, resolves to
\* no authenticated identity.
C16_LogoutDestroysSession ==
    last.op = "logout" /\ last.sid # 0 =>
        \A h \in {CookieOnly(SessionCookie(last.sid)), HeaderOnly(SessionCookie(last.sid))} :
            ~isAuthenticated(SessOf([sid |-> ResolveSid(h)]))

\* C17: a status request changes no session: the pending scan, the identity,
\* the role intent and the sticky flag of every session are the same after it
\* as before, and a request that came without a session creates none.
C17_StatusHasNoSideEffects ==
    [][Status =>
          /\ store' = store
          /\ nextSid' = nextSid
          /\ issued' = issued
          /\ denied' = denied]_vars

\* status asked on a session that holds an identity, with a role intent, and a
\* pending scan
C17_Witness ==
    /\ last.op = "status" /\ last.auth
    /\ last.sid # 0
    /\ store[last.sid].pendingCardId # Undefined
    /\ store[last.sid].user # NoUser

\* C18: a login begun with worker, establishment or department as its intent
\* is answered with the redirect to the IdP and has recorded that intent in
\* the session; an accepted callback gives the identity the role recorded in
\* its session (worker when none was recorded).
C18_RoleIntentPreserved ==
    /\ last.op = "login" =>
            /\ last.status = 302
            /\ last.sid # 0
            /\ store[last.sid].loginRole = last.intent
    /\ AcsAccepted =>
            LET sess == store[last.sid]
            IN /\ sess.user.role =
                    (IF sess.loginRole # Undefined THEN sess.loginRole ELSE "worker")
               /\ last.loc = DashboardPath(sess.user.role)

\* C19: a callback, in either form, whose assertion is valid (its reply is
\* neither the 400 of a missing SAMLResponse nor the redirect to /login) on a
\* session without a pending scan is accepted whatever identifiers the
\* assertion carries: it is answered with the redirect to a dashboard and the
\* session holds the passport login and the identity built from it.
C19_NoPendingScanIsAccepted ==
    [][/\ Routed
       /\ SessOf(req).pendingCardId = Undefined
       /\ last'.op = "acs" /\ last'.status # 400 /\ last'.loc # "/login"
       => /\ AcsAccepted'
          /\ last'.sid = SidOf(req)
          /\ last'.sid \notin denied'
          /\ LET sess == store'[last'.sid]
             IN /\ sess.passport # NoPassport
                /\ sess.user.nameID = sess.passport.nameID
                /\ sess.user.cardId = sess.passport.employeeNumber]_vars

\* a direct login accepted on a fresh session
C19_Witness ==
    /\ AcsAccepted
    /\ last.scanned = Undefined
    /\ nreq = 1
    /\ store[last.sid].user.nameID \in Cards

\* C20: a session holds one pending cardId or none; after a successful
\* card-scan it is that scan's cardId, whatever scan was pending before; a
\* callback that gets as far as the card validation is checked against the
\* pending cardId its session holds at that moment.
C20_LatestScanWins ==
    [][/\ \A s \in SIDs : store'[s].pendingCardId \in Cards \cup {Undefined}
       /\ last'.op = "card-scan" /\ last'.status = 200 =>
              /\ last'.scanned \in Cards
              /\ store'[last'.sid].pendingCardId = last'.scanned
       /\ Routed /\ last'.op = "acs" /\ last'.status # 400 /\ last'.loc # "/login" =>
              /\ last'.scanned = SessOf(req).pendingCardId
              /\ last'.status = 403 => last'.scanned # Undefined]_vars

\* a scan that superseded the pending scan of another card
C20_Witness ==
    /\ last.op = "card-scan" /\ last.status = 200
    /\ last.replaced # Undefined
    /\ last.replaced # last.scanned
    /\ store[last.sid].pendingCardId = last.scanned

\* ------------------------------------------------- claims: classification
Classified == detect.deviceType # "none"

\* the signals of the seven steps of the classifier, in their order
PlatformHeader(d) == d.xAppPlatform = "mobile" \/ d.xClientType = "mobile-app"

NativeShellOrigin(d) ==
    IF d.origin # Undefined THEN d.origin \in MobileOriginPrefixed
    ELSE d.referer # Undefined /\ d.referer \in MobileOriginPrefixed

AppUserAgent(d) == d.userAgent \in WithAppIdentifier

QueryOverride(d) == d.queryPlatform = "mobile" \/ d.queryApp = "true"

MobileUserAgent(d) == d.userAgent \in WithMobilePattern

FirstMatch(d, flag) ==
    IF PlatformHeader(d) THEN "mobile-app"
    ELSE IF NativeShellOrigin(d) THEN "mobile-app"
    ELSE IF AppUserAgent(d) THEN "mobile-app"
    ELSE IF QueryOverride(d) THEN "mobile-app"
    ELSE IF flag THEN "mobile-app"
    ELSE IF MobileUserAgent(d) THEN "mobile-browser"
    ELSE "desktop-browser"

InfoOf(deviceType) ==
    [isMobileApp |-> deviceType = "mobile-app",
     isMobileBrowser |-> deviceType = "mobile-browser",
     isDesktopBrowser |-> deviceType = "desktop-browser"]

\* C11: a classified request has the class of the first rule that matches, in
\* the order platform header, native-shell origin (the Referer when there is no
\* Origin), app User-Agent, query override, sticky flag (mobile-app), mobile
\* User-Agent pattern (mobile-browser), else desktop-browser; getDeviceInfo
\* reports the same class; a request with X-App-Platform: mobile is mobile-app
\* whatever its Origin and User-Agent are.
C11_FirstMatchWins ==
    Classified =>
        /\ detect.deviceType = FirstMatch(detect.dev, detect.flag)
        /\ detect.info = InfoOf(detect.deviceType)
        /\ detect.dev.xAppPlatform = "mobile" => detect.deviceType = "mobile-app"

\* scenario C: the platform header with a desktop browser's Origin and User-Agent
C11_Witness ==
    /\ Classified
    /\ detect.dev = [NoSignals EXCEPT
                        !.xAppPlatform = "mobile",
                        !.origin = "https://dulcet-cobbler-4df9df.netlify.app",
                        !.userAgent = "Mozilla/5.0 (Windows NT 10.0) Chrome"]
    /\ ~detect.flag
    /\ detect.deviceType = "mobile-app"

\* C12: a classified request with none of the signals and no sticky flag is
\* desktop-browser, and every classified request has exactly one of the three
\* classes, in req.deviceType and in getDeviceInfo.
C12_NoSignalIsDesktop ==
    Classified =>
        /\ detect.dev = NoSignals /\ ~detect.flag => detect.deviceType = "desktop-browser"
        /\ detect.deviceType \in DeviceTypes
        /\ Cardinality({k \in DOMAIN detect.info : detect.info[k]}) = 1

C12_Witness ==
    /\ Classified
    /\ detect.dev = NoSignals
    /\ ~detect.flag
    /\ detect.deviceType = "desktop-browser"
    /\ detect.info.isDesktopBrowser

Replied(response, d) ==
    /\ IF AuthenticateFails(response)
       THEN last'.loc = "/login"
       ELSE last'.loc # "/login" /\ last'.samlUser = Verify(response)
    /\ last'.dev \in {d, NoSignals}

C23_AcceptedCallbackConsumesScan ==
    [][Routed /\ last'.op = "acs" =>
          /\ AcsAccepted' => store'[last'.sid].pendingCardId = Undefined
          /\ SessOf(req).pendingCardId = Undefined =>
                 last'.scanned = Undefined /\ last'.status # 403]_vars

\* accepted on the employeeNumber that equals the pending scan
C23_Witness ==
    /\ AcsAccepted
    /\ last.scanned \in Cards
    /\ store[last.sid].passport.employeeNumber = last.scanned
    /\ store[last.sid].pendingCardId = Undefined

\* C24: a callback that reaches the comparison with a pending cardId is
\* accepted exactly when the pending cardId equals the assertion's
\* employeeNumber, or its nameID when it has no employeeNumber, and is
\* answered with the mismatch otherwise.
C24_ComparisonKey ==
    last.op = "acs" /\ last.scanned # Undefined =>
        LET key == IF last.samlUser.employeeNumber # Undefined
                   THEN last.samlUser.employeeNumber
                   ELSE last.samlUser.nameID
        IN /\ AcsAccepted <=> key = last.scanned
           /\ AcsMismatch <=> key # last.scanned

\* rejected on its employeeNumber although its nameID equals the pending scan
C24_Witness ==
    /\ AcsMismatch
    /\ last.samlUser.nameID = last.scanned
    /\ last.samlUser.employeeNumber \in Cards \ {last.scanned}

\* C25: a step changes no session but the one its request resolved to, so
\* the pending cardId of a session is stored, consumed and cleared by that
\* session's requests only; and the cardId a callback is compared with is the
\* pending cardId of the callback's own session.
C25_PendingScanIsPerSession ==
    [][/\ \A s \in SIDs :
              store'[s] # store[s] => req # Idle /\ s = SidOf(req)
       /\ Routed /\ last'.op = "acs" /\ last'.status # 400 /\ last'.loc # "/login" =>
              last'.scanned = SessOf(req).pendingCardId]_vars

\* a callback consumed the scan of its session while another session still
\* holds the scan of another card
C25_Witness ==
    /\ AcsAccepted
    /\ last.scanned \in Cards
    /\ \E s \in SIDs \ {last.sid} :
          store[s].pendingCardId \in Cards \ {last.scanned}

SameButRouting(l1, l2) ==
    [l1 EXCEPT !.base = "", !.dev = NoSignals] = [l2 EXCEPT !.base = "", !.dev = NoSignals]

\* C27: device signals affect routing only. Whatever a callback does with one
\* set of device signals, the same callback with any other set of signals,
\* in the same state, is accepted or rejected alike, saves the same session
\* (identity, role, pending scan), puts the same token into the redirect and
\* sends the same reply (status, path, compared card): the two differ at
\* most in the base of the redirect destination.
C27_DeviceAffectsRoutingOnly ==
    Routed /\ CanSave(req) =>
        \A profile \in SAMLResponses, d1, d2 \in Browsers :
            ~AuthenticateFails(profile) =>
                LET o1 == acsHandler(Verify(profile), d1, req)
                    o2 == acsHandler(Verify(profile), d2, req)
                IN /\ o1.accepted = o2.accepted
                   /\ o1.sess = o2.sess
                   /\ o1.token = o2.token
                   /\ SameButRouting(o1.reply, o2.reply)

C27_Witness ==
    /\ AcsAccepted
    /\ last.scanned \in Cards
    /\ last.base = "MOBILE_APP_URL"
    /\ last.dev.origin # Undefined \/ last.dev.xAppPlatform # Undefined

\* C28: a callback accepted in a session whose login was begun by a request
\* classified mobile-app is itself classified mobile-app, whatever signals it
\* carries: it finds the sticky flag in the session and is redirected to the
\* mobile base.
C28_StickyFlagKeepsMobile ==
    AcsAccepted /\ last.sid \in mobileLogin =>
        /\ store[last.sid].isMobileApp
        /\ last.base = "MOBILE_APP_URL"

\* C29: a callback is accepted against a pending scan only before the scan's
\* expiry, the cookie's maxAge after the scan was stored.
C29_PendingScanExpires ==
    [][Routed /\ last'.op = "acs" /\ AcsAccepted' /\ last'.scanned # Undefined =>
          now < pendingSince[last'.sid] + MaxAge]_vars

====
